---- MODULE Spec2Model ----
(***************************************************************************)
(* Railway ticket booking: the database tables, the trigger functions and  *)
(* stored procedures of the migrations, and the service functions of       *)
(* trainService.ts (createBooking, cancelBooking, addTrain).               *)
(*                                                                         *)
(* Every table is a sequence of rows; a row's generated key (train_id,     *)
(* fare_id, passenger_id, pnr, payment_id, cancel_id) is its index.        *)
(* Money columns of payment, cancellation and admin are held in tenths of  *)
(* a currency unit, so that amount * 0.9 is represented exactly; a whole   *)
(* amount of A units is the number 10 * A.                                 *)
(***************************************************************************)
EXTENDS Integers, Sequences, FiniteSets, TLC

\* ------------------------------------------------------------------ bounds
MaxSeats == 1        \* largest seat count given to addTrain
MaxRows == 2         \* rows per table (passenger, booking, payment, cancellation)
MaxAmount == 2       \* largest whole money amount a caller passes
MaxValue == 2        \* largest `value` passed to decrement / increment
MaxTrains == 1       \* trains addTrain may create

\* ------------------------------------------------------------------ domains
BookingStatuses == {"Confirmed", "Cancelled", "Pending"}
PaymentStatuses == {"Successful", "Failed"}
CancellationStatuses == {"Processed", "Pending"}
\* whole positive amounts, in tenths
Amounts == {10 * a : a \in 1..MaxAmount}

VARIABLES
  train,         \* table train: [total_seats, available_seats]
  fare,          \* table fare: [train_id, class, fare_amount]
  passenger,     \* table passenger: the number of rows (ids 1..passenger)
  booking,       \* table booking: [passenger_id, train_id, fare_id, class, booking_status]
  payment,       \* table payment: [pnr, amount, status]
  cancellation,  \* table cancellation: [pnr, refund_amount, status]
  admin,         \* table admin: [total_revenue]
  rpc,           \* calls of the stored procedures decrement / increment: locals, position
  snapshot,      \* table train as it was when the calls now in flight or done began
  cb,            \* createBooking calls: each caller's locals and position
  cn,            \* cancelBooking calls: each caller's locals and position
  at,            \* the addTrain call: its locals and position
  tx             \* sessions inserting payments: each one's row and position

vars == <<train, fare, passenger, booking, payment, cancellation, admin,
          rpc, snapshot, tx, cb, cn, at>>
tables == <<train, fare, passenger, booking, payment, cancellation, admin>>

\* ------------------------------------------------------------------ helpers
Max(a, b) == IF a >= b THEN a ELSE b
Min(a, b) == IF a <= b THEN a ELSE b

Last(seq) == seq[Len(seq)]

\* Math.floor in the place of Math.round
MathFloor(num, den) == num \div den

\* JavaScript Math.round of the fraction num/den (den > 0): floor(x + 1/2).
MathRound(num, den) == (2 * num + den) \div (2 * den)

\* The row image a trigger sees as OLD on INSERT (no row).
NoRow == [booking_status |-> "", status |-> "", amount |-> 0, train_id |-> 0]

\* UPDATE train SET available_seats = available_seats + d WHERE train_id = id
AddSeats(tr, id, d) ==
  [i \in DOMAIN tr |->
     IF i = id THEN [tr[i] EXCEPT !.available_seats = @ + d] ELSE tr[i]]

\* UPDATE train SET available_seats = v WHERE train_id = id
SetSeats(tr, id, v) ==
  [i \in DOMAIN tr |->
     IF i = id THEN [tr[i] EXCEPT !.available_seats = v] ELSE tr[i]]

\* ------------------------------------------------------------------ triggers
\* update_train_seats that looks at the new status only, not at the change
update_train_seats_byValue(tr, TG_OP, old, new) ==
  IF new.booking_status = "Confirmed"
    THEN AddSeats(tr, new.train_id, -1)
  ELSE IF TG_OP = "UPDATE" /\ new.booking_status = "Cancelled"
    THEN AddSeats(tr, new.train_id, 1)
  ELSE tr

\* update_train_seats that keeps available_seats within 0..total_seats
update_train_seats_clamped(tr, TG_OP, old, new) ==
  LET t == new.train_id
      take == SetSeats(tr, t, Max(tr[t].available_seats - 1, 0))
      give == SetSeats(tr, t, Min(tr[t].available_seats + 1, tr[t].total_seats))
  IN IF TG_OP = "INSERT"
       THEN IF new.booking_status = "Confirmed" THEN take ELSE tr
     ELSE IF old.booking_status # "Confirmed" /\ new.booking_status = "Confirmed"
       THEN take
     ELSE IF old.booking_status = "Confirmed" /\ new.booking_status = "Cancelled"
       THEN give
     ELSE tr

\* update_train_seats: AFTER INSERT OR UPDATE ON booking
update_train_seats(tr, TG_OP, old, new) ==
  IF TG_OP = "INSERT"
    THEN IF new.booking_status = "Confirmed"
           THEN AddSeats(tr, new.train_id, -1)
           ELSE tr
  ELSE IF TG_OP = "UPDATE"
    THEN IF old.booking_status # "Confirmed" /\ new.booking_status = "Confirmed"
           THEN AddSeats(tr, new.train_id, -1)
         ELSE IF old.booking_status = "Confirmed" /\ new.booking_status = "Cancelled"
           THEN AddSeats(tr, new.train_id, 1)
         ELSE tr
  ELSE tr

\* update_revenue_on_payment whose lazily created admin row starts at 0
update_revenue_on_payment_zero(adm, TG_OP, old, new) ==
  IF \/ (TG_OP = "INSERT" /\ new.status = "Successful")
     \/ (TG_OP = "UPDATE" /\ new.status = "Successful" /\ old.status # "Successful")
    THEN IF Len(adm) > 0
           THEN [i \in DOMAIN adm |->
                   [adm[i] EXCEPT !.total_revenue = @ + new.amount]]
           ELSE Append(adm, [total_revenue |-> 0])
  ELSE IF TG_OP = "UPDATE" /\ old.status = "Successful" /\ new.status # "Successful"
    THEN [i \in DOMAIN adm |->
            IF adm[i].total_revenue >= old.amount
              THEN [adm[i] EXCEPT !.total_revenue = @ - old.amount]
              ELSE adm[i]]
  ELSE adm

\* update_revenue_on_payment: AFTER INSERT OR UPDATE ON payment
update_revenue_on_payment(adm, TG_OP, old, new) ==
  IF \/ (TG_OP = "INSERT" /\ new.status = "Successful")
     \/ (TG_OP = "UPDATE" /\ new.status = "Successful" /\ old.status # "Successful")
    THEN IF Len(adm) > 0
           THEN [i \in DOMAIN adm |->
                   [adm[i] EXCEPT !.total_revenue = @ + new.amount]]
           ELSE Append(adm, [total_revenue |-> new.amount])
  ELSE IF TG_OP = "UPDATE" /\ old.status = "Successful" /\ new.status # "Successful"
    THEN [i \in DOMAIN adm |->
            IF adm[i].total_revenue >= old.amount
              THEN [adm[i] EXCEPT !.total_revenue = @ - old.amount]
              ELSE adm[i]]
  ELSE adm

\* update_revenue_on_refund without its WHERE total_revenue >= refund_amount
update_revenue_on_refund_unguarded(adm, TG_OP, new) ==
  IF TG_OP = "INSERT" /\ new.status = "Processed"
    THEN [i \in DOMAIN adm |->
            [adm[i] EXCEPT !.total_revenue = @ - new.refund_amount]]
    ELSE adm

\* update_revenue_on_refund: AFTER INSERT ON cancellation
update_revenue_on_refund(adm, TG_OP, new) ==
  IF TG_OP = "INSERT" /\ new.status = "Processed"
    THEN [i \in DOMAIN adm |->
            IF adm[i].total_revenue >= new.refund_amount
              THEN [adm[i] EXCEPT !.total_revenue = @ - new.refund_amount]
              ELSE adm[i]]
    ELSE adm

\* ------------------------------------------------------------------ table writes
\* INSERT INTO booking whose seat decrement is lost
InsertBooking_lostDecrement(row) ==
  /\ booking' = Append(booking, row)
  /\ train' = train

\* INSERT INTO booking: the row is appended and update_train_seats fires.
InsertBooking(row) ==
  /\ booking' = Append(booking, row)
  /\ train' = update_train_seats(train, "INSERT", NoRow, row)

\* UPDATE booking SET booking_status = s WHERE pnr = pnr
UpdateBookingStatus(pnr, s) ==
  /\ booking' = [i \in DOMAIN booking |->
                   IF i = pnr THEN [booking[i] EXCEPT !.booking_status = s]
                   ELSE booking[i]]
  /\ train' = IF pnr \in DOMAIN booking
                THEN update_train_seats(train, "UPDATE", booking[pnr],
                                        [booking[pnr] EXCEPT !.booking_status = s])
                ELSE train

\* UPDATE booking SET fare_id = f, class = <class of f> WHERE pnr = pnr: the
\* status is not written, update_train_seats fires all the same.
UpdateBookingFare(pnr, f) ==
  LET new == [booking[pnr] EXCEPT !.fare_id = f, !.class = fare[f].class]
  IN /\ booking' = [booking EXCEPT ![pnr] = new]
     /\ train' = update_train_seats(train, "UPDATE", booking[pnr], new)

\* INSERT INTO payment: the row is appended and update_revenue_on_payment fires.
InsertPayment(row) ==
  /\ payment' = Append(payment, row)
  /\ admin' = update_revenue_on_payment(admin, "INSERT", NoRow, row)

\* UPDATE payment SET status = s WHERE payment_id = id
UpdatePaymentStatus(id, s) ==
  /\ payment' = [payment EXCEPT ![id].status = s]
  /\ admin' = update_revenue_on_payment(admin, "UPDATE", payment[id],
                                        [payment[id] EXCEPT !.status = s])

\* INSERT INTO cancellation: the row is appended and update_revenue_on_refund fires.
InsertCancellation(row) ==
  /\ cancellation' = Append(cancellation, row)
  /\ admin' = update_revenue_on_refund(admin, "INSERT", row)

\* ------------------------------------------------------------------ payment sessions
\* Database sessions that insert payments, each in its own transaction.
PaySessions == {"s1", "s2"}
TxIdle == [pc |-> "idle", row |-> [pnr |-> 0, amount |-> 0, status |-> ""],
           exists |-> FALSE]

\* ------------------------------------------------------------------ stored procedures
RpcCallers == {"r1", "r2"}
RpcIdle == [pc |-> "idle", fn |-> "", row_id |-> 0, value |-> 0,
            current_value |-> 0, max_value |-> 0, ret |-> 0]

\* decrement with its ELSE branch subtracting like the THEN branch (no clamp)
decrement_body_unclamped(tr, row_id, value, current_value) ==
  [train |-> AddSeats(tr, row_id, -value), ret |-> current_value - value]

\* decrement, after its SELECT: the IF, the UPDATE it takes and the RETURN.
\* The UPDATE computes from the row as it is now, the IF and the RETURN from
\* the value the SELECT read.
decrement_body(tr, row_id, value, current_value) ==
  IF current_value >= value
    THEN [train |-> AddSeats(tr, row_id, -value), ret |-> current_value - value]
    ELSE [train |-> SetSeats(tr, row_id, 0), ret |-> 0]

\* increment, after its SELECT: the IF, the UPDATE it takes and the RETURN.
increment_body(tr, row_id, value, current_value, max_value) ==
  IF current_value + value <= max_value
    THEN [train |-> AddSeats(tr, row_id, value), ret |-> current_value + value]
    ELSE [train |-> SetSeats(tr, row_id, max_value), ret |-> max_value]

\* A client calls decrement(row_id, value) or increment(row_id, value).
RpcCall(p, fn, row_id, value) ==
  /\ rpc[p].pc = "idle"
  /\ row_id \in DOMAIN train
  /\ rpc' = [rpc EXCEPT ![p] = [RpcIdle EXCEPT !.pc = "select", !.fn = fn,
                                               !.row_id = row_id, !.value = value]]
  /\ UNCHANGED <<tables, snapshot, tx, cb, cn, at>>

\* SELECT available_seats [, total_seats] INTO current_value [, max_value]
RpcSelect(p) ==
  /\ rpc[p].pc = "select"
  /\ rpc' = [rpc EXCEPT ![p].pc = "update",
                        ![p].current_value = train[rpc[p].row_id].available_seats,
                        ![p].max_value = IF rpc[p].fn = "increment"
                                           THEN train[rpc[p].row_id].total_seats
                                           ELSE 0]
  /\ UNCHANGED <<tables, snapshot, tx, cb, cn, at>>

\* IF ... THEN UPDATE ...; RETURN ...
RpcUpdate(p) ==
  /\ rpc[p].pc = "update"
  /\ LET c == rpc[p]
         out == IF c.fn = "decrement"
                  THEN decrement_body(train, c.row_id, c.value, c.current_value)
                  ELSE increment_body(train, c.row_id, c.value, c.current_value,
                                      c.max_value)
     IN /\ train' = out.train
        /\ rpc' = [rpc EXCEPT ![p].pc = "done", ![p].ret = out.ret]
  /\ UNCHANGED <<fare, passenger, booking, payment, cancellation, admin,
                 snapshot, tx, cb, cn, at>>

\* The clients have their results; the next calls start from here.
RpcCollect ==
  /\ \A q \in RpcCallers : rpc[q].pc \in {"idle", "done"}
  /\ \E q \in RpcCallers : rpc[q].pc = "done"
  /\ rpc' = [q \in RpcCallers |-> RpcIdle]
  /\ snapshot' = train
  /\ UNCHANGED <<tables, cb, cn, at, tx>>

\* ------------------------------------------------------------------ createBooking
BookingCallers == {"b1", "b2"}
FareClasses == <<"AC First Class", "AC 2 Tier", "AC 3 Tier", "Sleeper">>
\* fare classes a caller asks for: one that addTrain creates, one it does not
RequestedClasses == {"AC 2 Tier", "Tatkal"}

CbIdle == [pc |-> "idle", passengers |-> 0, trainId |-> 0, fareClass |-> "",
           totalAmount |-> 0, passengerIds |-> <<>>, fareId |-> 0,
           bookings |-> <<>>, firstPnr |-> 0, result |-> 0, error |-> ""]

\* createBooking(bookingData) is called: n passengers, a train, a class, an amount.
CreateBooking(c, n, t, cls, amt) ==
  /\ cb[c].pc \in {"idle", "returned", "thrown"}
  /\ t \in DOMAIN train
  /\ cb' = [cb EXCEPT ![c] = [CbIdle EXCEPT !.pc = "passenger", !.passengers = n,
                                             !.trainId = t, !.fareClass = cls,
                                             !.totalAmount = amt]]
  /\ UNCHANGED <<tables, rpc, snapshot, tx, cn, at>>

\* Step 1, one turn of the loop: insert a passenger, or passengerError is thrown.
CbInsertPassenger(c) ==
  /\ cb[c].pc = "passenger"
  /\ \/ /\ passenger' = passenger + 1
        /\ cb' = [cb EXCEPT ![c].passengerIds = Append(@, passenger + 1),
                            ![c].pc = IF Len(cb[c].passengerIds) + 1 = cb[c].passengers
                                        THEN "fare" ELSE "passenger"]
     \/ /\ cb' = [cb EXCEPT ![c] = [CbIdle EXCEPT !.pc = "thrown", !.error = "passengerError"]]
        /\ UNCHANGED passenger
  /\ UNCHANGED <<train, fare, booking, payment, cancellation, admin,
                 rpc, snapshot, tx, cn, at>>

\* CbSelectFare without the fallback: fareError is thrown
CbSelectFare_noFallback(c) ==
  /\ cb[c].pc = "fare"
  /\ LET rows == {f \in DOMAIN fare : /\ fare[f].train_id = cb[c].trainId
                                      /\ fare[f].class = cb[c].fareClass}
     IN IF Cardinality(rows) = 1
          THEN cb' = [cb EXCEPT ![c].fareId = CHOOSE f \in rows : TRUE,
                                ![c].pc = "booking"]
          ELSE cb' = [cb EXCEPT ![c] = [CbIdle EXCEPT !.pc = "thrown", !.error = "fareError"]]
  /\ UNCHANGED <<tables, rpc, snapshot, tx, cn, at>>

\* Step 2: the fare of (train, class); .single() gives fareError unless exactly
\* one row matches, and the fallback lookup follows.
CbSelectFare(c) ==
  /\ cb[c].pc = "fare"
  /\ LET rows == {f \in DOMAIN fare : /\ fare[f].train_id = cb[c].trainId
                                      /\ fare[f].class = cb[c].fareClass}
     IN IF Cardinality(rows) = 1
          THEN cb' = [cb EXCEPT ![c].fareId = CHOOSE f \in rows : TRUE,
                                ![c].pc = "booking"]
          ELSE cb' = [cb EXCEPT ![c].pc = "anyFare"]
  /\ UNCHANGED <<tables, rpc, snapshot, tx, cn, at>>

\* Step 2, on fareError: any fare of the train (limit(1), no ordering);
\* .single() gives anyFareError, which is thrown, when the train has no fare.
CbSelectAnyFare(c) ==
  /\ cb[c].pc = "anyFare"
  /\ LET rows == {f \in DOMAIN fare : fare[f].train_id = cb[c].trainId}
     IN \/ \E f \in rows : cb' = [cb EXCEPT ![c].fareId = f, ![c].pc = "booking"]
        \/ /\ rows = {}
           /\ cb' = [cb EXCEPT ![c] = [CbIdle EXCEPT !.pc = "thrown", !.error = "anyFareError"]]
  /\ UNCHANGED <<tables, rpc, snapshot, tx, cn, at>>

\* bookingRow created as Pending instead of Confirmed
bookingRow_pending(c, i) ==
  [passenger_id |-> cb[c].passengerIds[i + 1],
   train_id |-> cb[c].trainId,
   fare_id |-> cb[c].fareId,
   class |-> cb[c].fareClass,
   booking_status |-> "Pending"]

\* The row of the i-th booking (i from 0) that step 3 inserts.
bookingRow(c, i) ==
  [passenger_id |-> cb[c].passengerIds[i + 1],
   train_id |-> cb[c].trainId,
   fare_id |-> cb[c].fareId,
   class |-> cb[c].fareClass,
   booking_status |-> "Confirmed"]

\* CbInsertBooking whose catch swallows bookingError: the call goes on to step 4
CbInsertBooking_swallow(c) ==
  /\ cb[c].pc = "booking"
  /\ LET i == Len(cb[c].bookings)
         pnr == Len(booking) + 1
     IN \/ /\ InsertBooking(bookingRow(c, i))
           /\ cb' = [cb EXCEPT ![c].bookings = Append(@, pnr),
                               ![c].firstPnr = IF i = 0 THEN pnr ELSE @,
                               ![c].pc = IF i + 1 = Len(cb[c].passengerIds)
                                           THEN "payment" ELSE "booking"]
        \/ /\ cb' = [cb EXCEPT ![c].pc = "payment"]
           /\ UNCHANGED <<train, booking>>
  /\ UNCHANGED <<fare, passenger, payment, cancellation, admin, rpc, snapshot, tx, cn, at>>

\* CbInsertBooking that goes on to the payment after the first booking
CbInsertBooking_payEarly(c) ==
  /\ cb[c].pc = "booking"
  /\ LET i == Len(cb[c].bookings)
         pnr == Len(booking) + 1
     IN \/ /\ InsertBooking(bookingRow(c, i))
           /\ cb' = [cb EXCEPT ![c].bookings = Append(@, pnr),
                               ![c].firstPnr = IF i = 0 THEN pnr ELSE @,
                               ![c].pc = "payment"]
        \/ /\ cb' = [cb EXCEPT ![c] = [CbIdle EXCEPT !.pc = "thrown", !.error = "bookingError"]]
           /\ UNCHANGED <<train, booking>>
  /\ UNCHANGED <<fare, passenger, payment, cancellation, admin, rpc, snapshot, tx, cn, at>>

\* Step 3, one turn of the loop: insert a Confirmed booking, or bookingError is thrown.
CbInsertBooking(c) ==
  /\ cb[c].pc = "booking"
  /\ LET i == Len(cb[c].bookings)
         pnr == Len(booking) + 1
     IN \/ /\ InsertBooking(bookingRow(c, i))
           /\ cb' = [cb EXCEPT ![c].bookings = Append(@, pnr),
                               ![c].firstPnr = IF i = 0 THEN pnr ELSE @,
                               ![c].pc = IF i + 1 = Len(cb[c].passengerIds)
                                           THEN "payment" ELSE "booking"]
        \/ /\ cb' = [cb EXCEPT ![c] = [CbIdle EXCEPT !.pc = "thrown", !.error = "bookingError"]]
           /\ UNCHANGED <<train, booking>>
  /\ UNCHANGED <<fare, passenger, payment, cancellation, admin, rpc, snapshot, tx, cn, at>>

\* paymentRow referencing the last booking of the call instead of the first
paymentRow_lastPnr(c) ==
  [pnr |-> Last(cb[c].bookings), amount |-> cb[c].totalAmount, status |-> "Successful"]

\* The row that step 4 inserts.
paymentRow(c) ==
  [pnr |-> cb[c].firstPnr, amount |-> cb[c].totalAmount, status |-> "Successful"]

\* Step 4: insert the payment and return firstPnr, or paymentError is thrown.
CbInsertPayment(c) ==
  /\ cb[c].pc = "payment"
  /\ \/ /\ InsertPayment(paymentRow(c))
        /\ cb' = [cb EXCEPT ![c] = [CbIdle EXCEPT !.pc = "returned", !.result = cb[c].firstPnr]]
     \/ /\ cb' = [cb EXCEPT ![c] = [CbIdle EXCEPT !.pc = "thrown", !.error = "paymentError"]]
        /\ UNCHANGED <<payment, admin>>
  /\ UNCHANGED <<train, fare, passenger, booking, cancellation, rpc, snapshot, tx, cn, at>>

\* ------------------------------------------------------------------ cancelBooking
CancelCallers == {"k1", "k2"}
CnIdle == [pc |-> "idle", pnr |-> 0, amount |-> 0, error |-> ""]

\* refundAmount rounded to a whole amount: Math.round(amount * 0.9)
refundAmount_rounded(amount) == 10 * MathRound(amount * 9, 100)

\* const refundAmount = amount * 0.9 (amount in tenths, a multiple of 10)
refundAmount(amount) == (amount * 9) \div 10

\* cancelBooking(pnr, amount) is called.
CancelBooking(k, pnr, amount) ==
  /\ cn[k].pc \in {"idle", "returned", "thrown"}
  /\ pnr \in DOMAIN booking
  /\ cn' = [cn EXCEPT ![k] = [CnIdle EXCEPT !.pc = "update", !.pnr = pnr,
                                             !.amount = amount]]
  /\ UNCHANGED <<tables, rpc, snapshot, tx, cb, at>>

\* Step 1: set the booking Cancelled, or bookingError is thrown.
CnUpdateBooking(k) ==
  /\ cn[k].pc = "update"
  /\ \/ /\ UpdateBookingStatus(cn[k].pnr, "Cancelled")
        /\ cn' = [cn EXCEPT ![k].pc = "insert"]
     \/ /\ cn' = [cn EXCEPT ![k] = [CnIdle EXCEPT !.pc = "thrown", !.error = "bookingError"]]
        /\ UNCHANGED <<train, booking>>
  /\ UNCHANGED <<fare, passenger, payment, cancellation, admin, rpc, snapshot, tx, cb, at>>

\* The row that step 2 inserts.
cancellationRow(k) ==
  [pnr |-> cn[k].pnr, refund_amount |-> refundAmount(cn[k].amount),
   status |-> "Processed"]

\* CnInsertCancellation whose catch swallows cancellationError: the call returns
CnInsertCancellation_swallow(k) ==
  /\ cn[k].pc = "insert"
  /\ \/ /\ InsertCancellation(cancellationRow(k))
        /\ cn' = [cn EXCEPT ![k] = [CnIdle EXCEPT !.pc = "returned"]]
     \/ /\ cn' = [cn EXCEPT ![k] = [CnIdle EXCEPT !.pc = "returned"]]
        /\ UNCHANGED <<cancellation, admin>>
  /\ UNCHANGED <<train, fare, passenger, booking, payment, rpc, snapshot, tx, cb, at>>

\* Step 2: insert the Processed cancellation, or cancellationError is thrown.
CnInsertCancellation(k) ==
  /\ cn[k].pc = "insert"
  /\ \/ /\ InsertCancellation(cancellationRow(k))
        /\ cn' = [cn EXCEPT ![k] = [CnIdle EXCEPT !.pc = "returned"]]
     \/ /\ cn' = [cn EXCEPT ![k] = [CnIdle EXCEPT !.pc = "thrown", !.error = "cancellationError"]]
        /\ UNCHANGED <<cancellation, admin>>
  /\ UNCHANGED <<train, fare, passenger, booking, payment, rpc, snapshot, tx, cb, at>>

\* ------------------------------------------------------------------ addTrain
AtIdle == [pc |-> "idle", availableSeats |-> 0, price |-> 0, newTrain |-> 0,
           error |-> ""]

\* multiplier of a fare class, in tenths
Multiplier(class) ==
  CASE class = "AC First Class" -> 10
    [] class = "AC 2 Tier" -> 8
    [] class = "AC 3 Tier" -> 6
    [] class = "Sleeper" -> 4

\* fareClasses.map(...): the four fare rows of a new train
fareData(train_id, fareAmount) ==
  [j \in 1..Len(FareClasses) |->
     [train_id |-> train_id, class |-> FareClasses[j],
      fare_amount |-> MathRound(fareAmount * Multiplier(FareClasses[j]), 10)]]

\* addTrain(trainData) is called.
AddTrain(seats, price) ==
  /\ at.pc \in {"idle", "returned", "thrown"}
  /\ at' = [AtIdle EXCEPT !.pc = "train", !.availableSeats = seats, !.price = price]
  /\ UNCHANGED <<tables, rpc, snapshot, tx, cb, cn>>

\* Step 1: insert the train, or trainError is thrown.
AtInsertTrain ==
  /\ at.pc = "train"
  /\ \/ /\ train' = Append(train, [total_seats |-> at.availableSeats,
                                   available_seats |-> at.availableSeats])
        /\ at' = [at EXCEPT !.pc = "fare", !.newTrain = Len(train) + 1]
     \/ /\ at' = [AtIdle EXCEPT !.pc = "thrown", !.error = "trainError"]
        /\ UNCHANGED train
  /\ UNCHANGED <<fare, passenger, booking, payment, cancellation, admin,
                 rpc, snapshot, tx, cb, cn>>

\* Step 2: insert the four fares, or fareError is thrown.
AtInsertFares ==
  /\ at.pc = "fare"
  /\ \/ /\ fare' = fare \o fareData(at.newTrain, at.price)
        /\ at' = [AtIdle EXCEPT !.pc = "returned"]
     \/ /\ at' = [AtIdle EXCEPT !.pc = "thrown", !.error = "fareError"]
        /\ UNCHANGED fare
  /\ UNCHANGED <<train, passenger, booking, payment, cancellation, admin,
                 rpc, snapshot, tx, cb, cn>>

\* ------------------------------------------------------------------ the service
\* Passenger rows the calls in flight may still insert.
CbPassengersPending ==
  LET left(c) == IF cb[c].pc = "passenger"
                   THEN cb[c].passengers - Len(cb[c].passengerIds) ELSE 0
  IN left("b1") + left("b2")

Init ==
  /\ train = <<>>
  /\ fare = <<>>
  /\ passenger = 0
  /\ booking = <<>>
  /\ payment = <<>>
  /\ cancellation = <<>>
  /\ admin = <<>>
  /\ rpc = [p \in RpcCallers |-> RpcIdle]
  /\ snapshot = <<>>
  /\ cb = [c \in BookingCallers |-> CbIdle]
  /\ cn = [k \in CancelCallers |-> CnIdle]
  /\ at = AtIdle
  /\ tx = [s \in PaySessions |-> TxIdle]

Next ==
  \/ \E seats \in 1..MaxSeats, price \in 1..MaxAmount :
       Len(train) < MaxTrains /\ AddTrain(seats, price)
  \/ AtInsertTrain
  \/ AtInsertFares
  \/ \E c \in {"b1"}, n \in 1..MaxRows, t \in DOMAIN train,
        cls \in RequestedClasses, amt \in Amounts :
       /\ passenger + CbPassengersPending + n <= MaxRows
       /\ CreateBooking(c, n, t, cls, amt)
  \/ \E c \in {"b1"} : CbInsertPassenger(c)
  \/ \E c \in {"b1"} : CbSelectFare(c)
  \/ \E c \in {"b1"} : CbSelectAnyFare(c)
  \/ \E c \in {"b1"} : CbInsertBooking(c)
  \/ \E c \in {"b1"} : CbInsertPayment(c)
  \/ \E k \in {"k1"}, pnr \in DOMAIN booking, amount \in Amounts :
       Len(cancellation) < MaxRows /\ CancelBooking(k, pnr, amount)
  \/ \E k \in {"k1"} : CnUpdateBooking(k)
  \/ \E k \in {"k1"} : CnInsertCancellation(k)

Spec == Init /\ [][Next]_vars

\* ------------------------------------------------------------------ database clients
\* Writes made directly on the tables (the admin dashboard, SQL clients): each
\* fires the table's trigger.
RefundAmounts == {refundAmount(a) : a \in Amounts}

DbInsertBooking(p, t, f, s) ==
  /\ InsertBooking([passenger_id |-> p, train_id |-> t, fare_id |-> f,
                    class |-> fare[f].class, booking_status |-> s])
  /\ UNCHANGED <<fare, passenger, payment, cancellation, admin, rpc, snapshot, tx, cb, cn, at>>

DbUpdateBooking(pnr, s) ==
  /\ pnr \in DOMAIN booking
  /\ UpdateBookingStatus(pnr, s)
  /\ UNCHANGED <<fare, passenger, payment, cancellation, admin, rpc, snapshot, tx, cb, cn, at>>

DbUpdateBookingFare(pnr, f) ==
  /\ pnr \in DOMAIN booking
  /\ f \in DOMAIN fare
  /\ UpdateBookingFare(pnr, f)
  /\ UNCHANGED <<fare, passenger, payment, cancellation, admin, rpc, snapshot, tx, cb, cn, at>>

DbInsertPayment(pnr, a, s) ==
  /\ InsertPayment([pnr |-> pnr, amount |-> a, status |-> s])
  /\ UNCHANGED <<train, fare, passenger, booking, cancellation, rpc, snapshot, tx, cb, cn, at>>

DbUpdatePayment(id, s) ==
  /\ id \in DOMAIN payment
  /\ UpdatePaymentStatus(id, s)
  /\ UNCHANGED <<train, fare, passenger, booking, cancellation, rpc, snapshot, tx, cb, cn, at>>

DbInsertCancellation(pnr, r, s) ==
  /\ InsertCancellation([pnr |-> pnr, refund_amount |-> r, status |-> s])
  /\ UNCHANGED <<train, fare, passenger, booking, payment, rpc, snapshot, tx, cb, cn, at>>

\* A train of addTrain with its fares, and one passenger booked on it whose
\* payment has not been written (createBooking, up to its step 4).
InitDb ==
  /\ \E seats \in 1..MaxSeats + 1 :
       train = <<[total_seats |-> seats, available_seats |-> seats - 1]>>
  /\ fare = fareData(1, MaxAmount)
  /\ passenger = 1
  /\ booking = <<[passenger_id |-> 1, train_id |-> 1, fare_id |-> 2,
                  class |-> "AC 2 Tier", booking_status |-> "Confirmed"]>>
  /\ payment = <<>>
  /\ cancellation = <<>>
  /\ admin = <<>>
  /\ rpc = [p \in RpcCallers |-> RpcIdle]
  /\ snapshot = <<>>
  /\ cb = [c \in BookingCallers |-> CbIdle]
  /\ cn = [k \in CancelCallers |-> CnIdle]
  /\ at = AtIdle
  /\ tx = [s \in PaySessions |-> TxIdle]

\* available_seats and total_revenue are kept within these by the guards below
SeatsFloor == 0 - MaxRows
RevenueCeiling == 10 * MaxAmount * MaxRows

\* Clients write the booking table.
NextSeats ==
  \/ \E s \in BookingStatuses :
       Len(booking) <= MaxRows /\ DbInsertBooking(1, 1, 2, s)
  \/ \E pnr \in DOMAIN booking, s \in BookingStatuses :
       train[booking[pnr].train_id].available_seats > SeatsFloor /\ DbUpdateBooking(pnr, s)
  \/ \E pnr \in DOMAIN booking, f \in {1, 2} : DbUpdateBookingFare(pnr, f)

SpecSeats == InitDb /\ [][NextSeats]_vars

\* Clients write the booking table and call decrement and increment, one call
\* at a time.
NextSeatsLedger ==
  \/ \E s \in BookingStatuses :
       Len(booking) < MaxRows /\ DbInsertBooking(1, 1, 2, s)
  \/ \E pnr \in DOMAIN booking, s \in BookingStatuses :
       train[booking[pnr].train_id].available_seats > SeatsFloor /\ DbUpdateBooking(pnr, s)
  \/ \E fn \in {"decrement", "increment"}, v \in 1..MaxValue :
       /\ \A q \in RpcCallers : rpc[q].pc = "idle"
       /\ RpcCall("r1", fn, 1, v)
  \/ RpcSelect("r1")
  \/ RpcUpdate("r1")
  \/ RpcCollect

SpecSeatsLedger == InitDb /\ [][NextSeatsLedger]_vars

\* Clients write the payment and cancellation tables.
NextRevenue ==
  \/ \E a \in Amounts, s \in PaymentStatuses :
       /\ Len(payment) < MaxRows
       /\ Len(payment) + Len(cancellation) <= MaxRows
       /\ DbInsertPayment(1, a, s)
  \/ \E id \in DOMAIN payment, s \in PaymentStatuses :
       /\ \A i \in DOMAIN admin : admin[i].total_revenue < RevenueCeiling
       /\ DbUpdatePayment(id, s)
  \/ \E r \in RefundAmounts, s \in CancellationStatuses :
       /\ Len(cancellation) < MaxRows
       /\ Len(payment) + Len(cancellation) <= MaxRows
       /\ DbInsertCancellation(1, r, s)

SpecRevenue == InitDb /\ [][NextRevenue]_vars

\* ------------------------------------------------------------------ the ledger procedures
\* One train, its available_seats anywhere in 0..total_seats, and clients that
\* call decrement and increment on it.
InitLedger ==
  /\ \E total \in 0..MaxSeats + 1, avail \in 0..MaxSeats + 1 :
       /\ avail <= total
       /\ train = <<[total_seats |-> total, available_seats |-> avail]>>
  /\ fare = <<>>
  /\ passenger = 0
  /\ booking = <<>>
  /\ payment = <<>>
  /\ cancellation = <<>>
  /\ admin = <<>>
  /\ rpc = [p \in RpcCallers |-> RpcIdle]
  /\ snapshot = train
  /\ cb = [c \in BookingCallers |-> CbIdle]
  /\ cn = [k \in CancelCallers |-> CnIdle]
  /\ at = AtIdle
  /\ tx = [s \in PaySessions |-> TxIdle]

\* Calls overlap freely.
NextLedger ==
  \/ \E p \in RpcCallers, fn \in {"decrement", "increment"}, v \in 0..MaxValue :
       RpcCall(p, fn, 1, v)
  \/ \E p \in RpcCallers : RpcSelect(p)
  \/ \E p \in RpcCallers : RpcUpdate(p)
  \/ RpcCollect

SpecLedger == InitLedger /\ [][NextLedger]_vars

\* One call at a time: a call starts only when no other call is in flight.
NextLedgerSerial ==
  \/ \E p \in RpcCallers, fn \in {"decrement", "increment"}, v \in 0..MaxValue :
       /\ \A q \in RpcCallers : rpc[q].pc \in {"idle", "done"}
       /\ RpcCall(p, fn, 1, v)
  \/ \E p \in RpcCallers : RpcSelect(p)
  \/ \E p \in RpcCallers : RpcUpdate(p)
  \/ RpcCollect

SpecLedgerSerial == InitLedger /\ [][NextLedgerSerial]_vars

\* ------------------------------------------------------------------ addTrain alone
\* The admin adds trains, call after call.
NextAddTrain ==
  \/ \E seats \in 1..MaxSeats + 1, price \in 1..MaxAmount :
       Len(train) <= MaxTrains /\ AddTrain(seats, price)
  \/ AtInsertTrain
  \/ AtInsertFares

SpecAddTrain == Init /\ [][NextAddTrain]_vars

\* ------------------------------------------------------------------ createBooking alone
\* A train of addTrain, with its four fares or (fareError) with none.
InitBooking ==
  /\ \E seats \in 1..MaxSeats :
       train = <<[total_seats |-> seats, available_seats |-> seats]>>
  /\ fare \in {<<>>, fareData(1, MaxAmount)}
  /\ passenger = 0
  /\ booking = <<>>
  /\ payment = <<>>
  /\ cancellation = <<>>
  /\ admin = <<>>
  /\ rpc = [p \in RpcCallers |-> RpcIdle]
  /\ snapshot = <<>>
  /\ cb = [c \in BookingCallers |-> CbIdle]
  /\ cn = [k \in CancelCallers |-> CnIdle]
  /\ at = AtIdle
  /\ tx = [s \in PaySessions |-> TxIdle]

\* One client books, call after call.
NextBooking ==
  \/ \E c \in {"b1"}, n \in 1..MaxRows, t \in DOMAIN train,
        cls \in RequestedClasses, amt \in Amounts :
       /\ passenger + CbPassengersPending + n <= MaxRows
       /\ CreateBooking(c, n, t, cls, amt)
  \/ \E c \in {"b1"} : CbInsertPassenger(c)
  \/ \E c \in {"b1"} : CbSelectFare(c)
  \/ \E c \in {"b1"} : CbSelectAnyFare(c)
  \/ \E c \in {"b1"} : CbInsertBooking(c)
  \/ \E c \in {"b1"} : CbInsertPayment(c)

SpecBooking == InitBooking /\ [][NextBooking]_vars

\* ------------------------------------------------------------------ concurrent createBooking
\* A train of addTrain with its fares and 1..MaxRows seats, all available.
InitConcurrent ==
  /\ \E seats \in 1..MaxRows :
       train = <<[total_seats |-> seats, available_seats |-> seats]>>
  /\ fare = fareData(1, MaxAmount)
  /\ passenger = 0
  /\ booking = <<>>
  /\ payment = <<>>
  /\ cancellation = <<>>
  /\ admin = <<>>
  /\ rpc = [p \in RpcCallers |-> RpcIdle]
  /\ snapshot = <<>>
  /\ cb = [c \in BookingCallers |-> CbIdle]
  /\ cn = [k \in CancelCallers |-> CnIdle]
  /\ at = AtIdle
  /\ tx = [s \in PaySessions |-> TxIdle]

\* Two clients book on the train, the steps of their calls interleaving freely.
NextConcurrent ==
  \/ \E c \in BookingCallers, n \in 1..MaxRows, cls \in RequestedClasses :
       /\ passenger + CbPassengersPending + n <= MaxRows
       /\ CreateBooking(c, n, 1, cls, 10 * MaxAmount)
  \/ \E c \in BookingCallers : CbInsertPassenger(c)
  \/ \E c \in BookingCallers : CbSelectFare(c)
  \/ \E c \in BookingCallers : CbSelectAnyFare(c)
  \/ \E c \in BookingCallers : CbInsertBooking(c)
  \/ \E c \in BookingCallers : CbInsertPayment(c)

SpecConcurrent == InitConcurrent /\ [][NextConcurrent]_vars

\* ------------------------------------------------------------------ createBooking and cancelBooking
\* One client books and one cancels, call after call, their calls interleaving.
NextLifecycle ==
  \/ \E n \in 1..MaxRows, cls \in RequestedClasses :
       /\ passenger + CbPassengersPending + n <= MaxRows
       /\ CreateBooking("b1", n, 1, cls, 10 * MaxAmount)
  \/ CbInsertPassenger("b1")
  \/ CbSelectFare("b1")
  \/ CbSelectAnyFare("b1")
  \/ CbInsertBooking("b1")
  \/ CbInsertPayment("b1")
  \/ \E pnr \in DOMAIN booking :
       Len(cancellation) < MaxRows /\ CancelBooking("k1", pnr, 10 * MaxAmount)
  \/ CnUpdateBooking("k1")
  \/ CnInsertCancellation("k1")

SpecLifecycle == InitBooking /\ [][NextLifecycle]_vars

\* ------------------------------------------------------------------ addTrain, createBooking, cancelBooking
\* The admin adds trains, one client books and one cancels; the steps of their
\* calls interleave freely.
NextConservation ==
  \/ \E seats \in 1..MaxSeats :
       Len(train) < MaxTrains /\ AddTrain(seats, MaxAmount)
  \/ AtInsertTrain
  \/ AtInsertFares
  \/ \E n \in 1..MaxRows, t \in DOMAIN train, cls \in RequestedClasses :
       /\ passenger + CbPassengersPending + n <= MaxRows
       /\ CreateBooking("b1", n, t, cls, 10 * MaxAmount)
  \/ CbInsertPassenger("b1")
  \/ CbSelectFare("b1")
  \/ CbSelectAnyFare("b1")
  \/ CbInsertBooking("b1")
  \/ CbInsertPayment("b1")
  \/ \E pnr \in DOMAIN booking :
       Len(cancellation) < MaxRows /\ CancelBooking("k1", pnr, 10 * MaxAmount)
  \/ CnUpdateBooking("k1")
  \/ CnInsertCancellation("k1")

SpecConservation == Init /\ [][NextConservation]_vars

\* ------------------------------------------------------------------ cancelBooking alone
\* A train and one passenger booked and paid on it (createBooking returned).
InitCancel ==
  /\ \E seats \in 1..MaxSeats :
       train = <<[total_seats |-> seats, available_seats |-> seats - 1]>>
  /\ fare = fareData(1, MaxAmount)
  /\ passenger = 1
  /\ booking = <<[passenger_id |-> 1, train_id |-> 1, fare_id |-> 2,
                  class |-> "AC 2 Tier", booking_status |-> "Confirmed"]>>
  /\ \E a \in Amounts :
       /\ payment = <<[pnr |-> 1, amount |-> a, status |-> "Successful"]>>
       /\ admin = <<[total_revenue |-> a]>>
  /\ cancellation = <<>>
  /\ rpc = [p \in RpcCallers |-> RpcIdle]
  /\ snapshot = <<>>
  /\ cb = [c \in BookingCallers |-> CbIdle]
  /\ cn = [k \in CancelCallers |-> CnIdle]
  /\ at = AtIdle
  /\ tx = [s \in PaySessions |-> TxIdle]

\* Two clients cancel, their calls overlapping freely.
NextCancel ==
  \/ \E k \in CancelCallers, pnr \in DOMAIN booking, amount \in Amounts :
       Len(cancellation) < MaxRows /\ CancelBooking(k, pnr, amount)
  \/ \E k \in CancelCallers : CnUpdateBooking(k)
  \/ \E k \in CancelCallers : CnInsertCancellation(k)

SpecCancel == InitCancel /\ [][NextCancel]_vars

\* ------------------------------------------------------------------ concurrent payment inserts
\* IF EXISTS (SELECT 1 FROM admin)
AdminExists(adm) == Len(adm) > 0

\* The branch of update_revenue_on_payment taken on the outcome of the test:
\* UPDATE admin SET total_revenue = total_revenue + NEW.amount, or INSERT INTO
\* admin (..., total_revenue) VALUES (..., NEW.amount).
AccrueRevenue(adm, exists, new) ==
  IF exists
    THEN [i \in DOMAIN adm |-> [adm[i] EXCEPT !.total_revenue = @ + new.amount]]
    ELSE Append(adm, [total_revenue |-> new.amount])

\* Payments a session has begun to insert and not committed.
TxInFlight == Cardinality({s \in PaySessions : tx[s].pc # "idle"})

\* A session begins INSERT INTO payment: the trigger runs in the session's
\* transaction and tests whether a revenue record exists; it sees the rows
\* committed so far.
PayTrigger(s, a, st) ==
  /\ tx[s].pc = "idle"
  /\ tx' = [tx EXCEPT ![s] = [pc |-> "write",
                              row |-> [pnr |-> 1, amount |-> a, status |-> st],
                              exists |-> AdminExists(admin)]]
  /\ UNCHANGED <<tables, rpc, snapshot, cb, cn, at>>

\* The trigger writes admin on the outcome of its test and the transaction
\* commits: the payment and the admin write become visible.
PayCommit(s) ==
  /\ tx[s].pc = "write"
  /\ payment' = Append(payment, tx[s].row)
  /\ admin' = IF tx[s].row.status = "Successful"
                THEN AccrueRevenue(admin, tx[s].exists, tx[s].row)
                ELSE admin
  /\ tx' = [tx EXCEPT ![s] = TxIdle]
  /\ UNCHANGED <<train, fare, passenger, booking, cancellation, rpc, snapshot, cb, cn, at>>

\* Two sessions insert payments, their transactions overlapping freely.
NextPayments ==
  \/ \E s \in PaySessions, a \in Amounts, st \in PaymentStatuses :
       Len(payment) + TxInFlight < MaxRows /\ PayTrigger(s, a, st)
  \/ \E s \in PaySessions : PayCommit(s)

SpecPayments == InitDb /\ [][NextPayments]_vars

\* ------------------------------------------------------------------ the two effects of a cancellation
\* The tables a cancellation touches, as one value.
Database == [train |-> train, booking |-> booking,
             cancellation |-> cancellation, admin |-> admin]

\* cancelBooking step 1 on database db: UPDATE booking SET booking_status =
\* 'Cancelled' WHERE pnr = pnr, with update_train_seats fired.
CancelSeatEffect(db, pnr) ==
  LET old == db.booking[pnr]
      new == [old EXCEPT !.booking_status = "Cancelled"]
  IN [db EXCEPT !.booking = [db.booking EXCEPT ![pnr] = new],
                !.train = update_train_seats(db.train, "UPDATE", old, new)]

\* CancelRevenueEffect that reverses revenue only once the booking is Cancelled
CancelRevenueEffect_afterSeat(db, pnr, amount) ==
  LET row == [pnr |-> pnr, refund_amount |-> refundAmount(amount),
              status |-> "Processed"]
  IN [db EXCEPT !.cancellation = Append(db.cancellation, row),
                !.admin = IF db.booking[pnr].booking_status = "Cancelled"
                            THEN update_revenue_on_refund(db.admin, "INSERT", row)
                            ELSE db.admin]

\* cancelBooking step 2 on database db: INSERT INTO cancellation (pnr,
\* refund_amount, 'Processed'), with update_revenue_on_refund fired.
CancelRevenueEffect(db, pnr, amount) ==
  LET row == [pnr |-> pnr, refund_amount |-> refundAmount(amount),
              status |-> "Processed"]
  IN [db EXCEPT !.cancellation = Append(db.cancellation, row),
                !.admin = update_revenue_on_refund(db.admin, "INSERT", row)]

\* The database becomes db.
Becomes(db) ==
  /\ train' = db.train
  /\ booking' = db.booking
  /\ cancellation' = db.cancellation
  /\ admin' = db.admin
  /\ UNCHANGED <<fare, passenger, payment, rpc, snapshot, tx, cb, cn, at>>

\* Clients apply the two effects of a cancellation, in any order and any
\* number, and write other statuses in between.
NextCancelEffects ==
  \/ \E pnr \in DOMAIN booking :
       /\ booking[pnr].booking_status # "Cancelled"
       /\ Becomes(CancelSeatEffect(Database, pnr))
  \/ \E pnr \in DOMAIN booking, amount \in Amounts :
       /\ Len(cancellation) < MaxRows
       /\ Becomes(CancelRevenueEffect(Database, pnr, amount))
  \/ \E pnr \in DOMAIN booking, s \in BookingStatuses \ {"Cancelled"} :
       /\ train[booking[pnr].train_id].available_seats > SeatsFloor
       /\ DbUpdateBooking(pnr, s)

SpecCancelEffects == InitCancel /\ [][NextCancelEffects]_vars

\* ================================================================== claims
\* What a step did to the tables.
BookingInserted == Len(booking') = Len(booking) + 1
PaymentInserted == Len(payment') = Len(payment) + 1
CancellationInserted == Len(cancellation') = Len(cancellation) + 1

\* C1: in every reachable state every train has 0 <= available_seats <= total_seats.
C1_SeatsWithinBounds ==
  \A t \in DOMAIN train :
    /\ 0 <= train[t].available_seats
    /\ train[t].available_seats <= train[t].total_seats

\* C2: a Confirmed booking created on a train whose available_seats is 0 is
\* accepted and leaves available_seats at 0.
C2_ConfirmedAtZeroStaysZero ==
  [][\A t \in DOMAIN train :
       (/\ train[t].available_seats = 0
        /\ BookingInserted
        /\ Last(booking').train_id = t
        /\ Last(booking').booking_status = "Confirmed")
       => train'[t].available_seats = 0]_vars

\* C3: a call of decrement(train, n) that runs alone on a train with
\* 0 <= current <= total_seats stores and returns max(current - n, 0), and a
\* call of increment(train, n) stores and returns min(current + n, total_seats).
C3_SingleCallClamps ==
  [][\A p \in RpcCallers :
       (rpc[p].pc = "update" /\ rpc'[p].pc = "done") =>
         LET id == rpc[p].row_id
             n == rpc[p].value
             current == train[id].available_seats
             total == train[id].total_seats
             expected == IF rpc[p].fn = "decrement"
                           THEN Max(current - n, 0)
                           ELSE Min(current + n, total)
         IN (0 <= current /\ current <= total) =>
              /\ rpc'[p].ret = expected
              /\ train'[id].available_seats = expected
              /\ train'[id].total_seats = total]_vars

\* C3 witness: a decrement by more than the seats available has returned 0.
C3_Witness ==
  \E p \in RpcCallers :
    /\ rpc[p].pc = "done"
    /\ rpc[p].fn = "decrement"
    /\ rpc[p].current_value > 0
    /\ rpc[p].value > rpc[p].current_value
    /\ rpc[p].ret = 0
    /\ train[rpc[p].row_id].available_seats = 0

\* The calls of `order`, one after the other from table tr: the table they
\* leave and what each returns.
RECURSIVE SerialRun(_, _, _)
SerialRun(order, tr, rets) ==
  IF order = <<>> THEN [train |-> tr, rets |-> rets]
  ELSE LET p == Head(order)
           c == rpc[p]
           out == IF c.fn = "decrement"
                    THEN decrement_body(tr, c.row_id, c.value,
                                        tr[c.row_id].available_seats)
                    ELSE increment_body(tr, c.row_id, c.value,
                                        tr[c.row_id].available_seats,
                                        tr[c.row_id].total_seats)
       IN SerialRun(Tail(order), out.train, rets @@ (p :> out.ret))

Orders(S) ==
  {o \in [1..Cardinality(S) -> S] : \A i, j \in DOMAIN o : i # j => o[i] # o[j]}

\* C4: once the overlapping calls of decrement and increment have returned, the
\* table and every return value are those of the same calls in some serial order.
C4_CallsSerializable ==
  LET done == {p \in RpcCallers : rpc[p].pc = "done"}
  IN (\A p \in RpcCallers : rpc[p].pc \in {"idle", "done"}) =>
       \E o \in Orders(done) :
         LET out == SerialRun(o, snapshot, <<>>)
         IN /\ out.train = train
            /\ \A p \in done : out.rets[p] = rpc[p].ret

\* A step in which a revenue reversal of `amt` was written.
PaymentReversed(i) ==
  /\ i \in DOMAIN payment
  /\ payment[i].status = "Successful"
  /\ payment'[i].status # "Successful"
RefundProcessed ==
  CancellationInserted /\ Last(cancellation').status = "Processed"
ReversedBy(amt) ==
  /\ Len(admin') = Len(admin)
  /\ \A j \in DOMAIN admin :
       admin'[j].total_revenue =
         IF admin[j].total_revenue >= amt
           THEN admin[j].total_revenue - amt
           ELSE admin[j].total_revenue

\* C5: total_revenue is never negative; a reversal (a payment updated out of
\* Successful, a Cancellation inserted as Processed) larger than total_revenue
\* leaves it unchanged, a reversal no larger subtracts exactly its amount.
C5_ReversalGuarded ==
  [][/\ \A j \in DOMAIN admin' : admin'[j].total_revenue >= 0
     /\ \A i \in DOMAIN payment : PaymentReversed(i) => ReversedBy(payment[i].amount)
     /\ RefundProcessed => ReversedBy(Last(cancellation').refund_amount)]_vars

\* C5 witness: a Processed refund larger than the revenue was written and the
\* revenue is still that of the one Successful payment.
C5_Witness ==
  /\ Len(payment) = 1 /\ payment[1].status = "Successful"
  /\ Len(admin) = 1 /\ admin[1].total_revenue = payment[1].amount
  /\ \E i \in DOMAIN cancellation :
       /\ cancellation[i].status = "Processed"
       /\ cancellation[i].refund_amount > admin[1].total_revenue

\* A step in which a payment became Successful.
PaymentAccrued(i) ==
  /\ i \in DOMAIN payment'
  /\ payment'[i].status = "Successful"
  /\ i \in DOMAIN payment => payment[i].status # "Successful"
AccruedBy(amt) ==
  IF Len(admin) = 0
    THEN admin' = <<[total_revenue |-> amt]>>
    ELSE /\ Len(admin') = Len(admin)
         /\ \A j \in DOMAIN admin :
              admin'[j].total_revenue = admin[j].total_revenue + amt

\* C6: a payment inserted as Successful, or updated into Successful from another
\* status, adds exactly its amount to total_revenue, creating the revenue record
\* with that amount when none exists; any other payment write that is not a
\* reversal leaves total_revenue unchanged.
C6_AccrualExact ==
  [][/\ \A i \in DOMAIN payment' : PaymentAccrued(i) => AccruedBy(payment'[i].amount)
     /\ (/\ ~ \E i \in DOMAIN payment' : PaymentAccrued(i)
         /\ ~ \E i \in DOMAIN payment : PaymentReversed(i)
         /\ ~ CancellationInserted)
        => admin' = admin]_vars

\* C6 witness: Successful 2 with no record, then Successful 1: the record,
\* created at 2, holds 3.
C6_Witness ==
  /\ Len(payment) = 2
  /\ payment[1].amount = 20 /\ payment[1].status = "Successful"
  /\ payment[2].amount = 10 /\ payment[2].status = "Successful"
  /\ cancellation = <<>>
  /\ admin = <<[total_revenue |-> 30]>>

\* A step in which cancelBooking call k wrote its Cancellation record.
CancellationWritten(k) ==
  cn[k].pc = "insert" /\ cn'[k].pc = "returned" /\ CancellationInserted

\* C7 as stated: cancelBooking(pnr, A) stores refund_amount = round(0.9 * A),
\* a whole amount.
C7_RefundRounded ==
  [][\A k \in CancelCallers :
       CancellationWritten(k) =>
         Last(cancellation').refund_amount = 10 * MathRound(9 * cn[k].amount, 100)]_vars

\* C7 amended: cancelBooking(pnr, A) stores refund_amount = 0.9 * A, not rounded,
\* in the one Processed record it writes for pnr.
C7_RefundNineTenths ==
  [][\A k \in CancelCallers :
       CancellationWritten(k) =>
         /\ 10 * Last(cancellation').refund_amount = 9 * cn[k].amount
         /\ Last(cancellation').pnr = cn[k].pnr
         /\ Last(cancellation').status = "Processed"]_vars

\* C7 witness: a cancelBooking call has returned and left a refund that is not
\* a whole amount.
C7_Witness ==
  /\ \E k \in CancelCallers : cn[k].pc = "returned"
  /\ \E i \in DOMAIN cancellation : cancellation[i].refund_amount % 10 # 0

\* C8: when no cancelBooking call is in flight, every Cancelled booking has
\* exactly one Cancellation record, and that record is Processed.
C8_OneProcessedRecord ==
  (\A k \in CancelCallers : cn[k].pc \in {"idle", "returned", "thrown"}) =>
    \A pnr \in DOMAIN booking :
      booking[pnr].booking_status = "Cancelled" =>
        LET recs == {i \in DOMAIN cancellation : cancellation[i].pnr = pnr}
        IN /\ Cardinality(recs) = 1
           /\ \A i \in recs : cancellation[i].status = "Processed"

\* The rows of one createBooking call.
Range(seq) == {seq[i] : i \in DOMAIN seq}
InFlight(c) == cb[c].pc \in {"passenger", "fare", "anyFare", "booking", "payment"}
Returns(c) == InFlight(c) /\ cb'[c].pc = "returned"
Throws(c) == InFlight(c) /\ cb'[c].pc = "thrown"

\* C9: a createBooking call with N >= 1 passengers that returns has created
\* exactly N Passenger rows, exactly N Confirmed Booking rows that all reference
\* the one resolved fare, and exactly one Payment row, Successful, of the given
\* total amount, on the PNR of the first booking created, which it returns.
C9_SuccessfulCallRows ==
  [][\A c \in {"b1"} :
       \* while the call runs, every row written is one the call recorded
       /\ (InFlight(c) /\ cb'[c].pc \notin {"returned", "thrown"}) =>
            /\ passenger' - passenger = Len(cb'[c].passengerIds) - Len(cb[c].passengerIds)
            /\ Len(booking') - Len(booking) = Len(cb'[c].bookings) - Len(cb[c].bookings)
            /\ payment' = payment
       /\ Returns(c) =>
            LET n == cb[c].passengers
                ids == Range(cb[c].passengerIds)
                mine == {i \in DOMAIN booking' : booking'[i].passenger_id \in ids}
                paid == {j \in DOMAIN payment' : payment'[j].pnr \in mine}
            IN /\ n >= 1
               /\ Len(cb[c].passengerIds) = n /\ Cardinality(ids) = n
               /\ ids \subseteq 1..passenger'
               /\ passenger' = passenger /\ booking' = booking
               /\ Cardinality(mine) = n /\ mine = Range(cb[c].bookings)
               /\ \A i \in mine :
                    /\ booking'[i].booking_status = "Confirmed"
                    /\ booking'[i].fare_id = cb[c].fareId
                    /\ booking'[i].train_id = cb[c].trainId
               /\ PaymentInserted
               /\ paid = {Len(payment')}
               /\ Last(payment').status = "Successful"
               /\ Last(payment').amount = cb[c].totalAmount
               /\ Last(payment').pnr = cb[c].bookings[1]
               /\ \A i \in mine : cb[c].bookings[1] <= i
               /\ cb'[c].result = cb[c].bookings[1]]_vars

\* C9 witness: a call for two passengers has returned: two bookings on one
\* fare and one payment, on the PNR returned.
C9_Witness ==
  /\ cb["b1"].pc = "returned"
  /\ passenger = 2
  /\ Len(booking) = 2
  /\ booking[1].fare_id = booking[2].fare_id
  /\ booking[1].passenger_id # booking[2].passenger_id
  /\ Len(payment) = 1
  /\ payment[1].pnr = cb["b1"].result
  /\ cb["b1"].result = 1

\* C10: when a step of createBooking fails (its write takes no effect), the
\* call throws that step's error and ends: no row is written or removed by the
\* failing step or after it, so the rows and seat decrements of the earlier
\* steps stay, and there is no retry.
C10_FailureStopsTheCall ==
  [][\A c \in {"b1"} :
       \* a write step that wrote nothing throws its error
       /\ (cb[c].pc = "passenger" /\ cb'[c] # cb[c] /\ passenger' = passenger)
            => (cb'[c].pc = "thrown" /\ cb'[c].error = "passengerError")
       /\ (cb[c].pc = "booking" /\ cb'[c] # cb[c] /\ booking' = booking)
            => (cb'[c].pc = "thrown" /\ cb'[c].error = "bookingError")
       /\ (cb[c].pc = "payment" /\ cb'[c] # cb[c] /\ payment' = payment)
            => (cb'[c].pc = "thrown" /\ cb'[c].error = "paymentError")
       \* fare resolution fails only at the fallback lookup, with its error
       /\ cb[c].pc = "fare" => cb'[c].pc # "thrown"
       /\ (cb[c].pc = "anyFare" /\ cb'[c].pc = "thrown")
            => (cb'[c].error = "anyFareError" /\ cb[c].bookings = <<>>)
       \* the throwing step leaves every table as it is
       /\ Throws(c) =>
            /\ tables' = tables
            /\ cb[c].pc = "passenger" =>
                 /\ Len(cb[c].passengerIds) < cb[c].passengers
                 /\ Range(cb[c].passengerIds) \subseteq 1..passenger'
                 /\ \A i \in DOMAIN booking' :
                      booking'[i].passenger_id \notin Range(cb[c].passengerIds)
            /\ cb[c].pc \in {"booking", "payment"} =>
                 /\ Len(cb[c].passengerIds) = cb[c].passengers
                 /\ \A j \in DOMAIN cb[c].bookings :
                      /\ cb[c].bookings[j] \in DOMAIN booking'
                      /\ booking'[cb[c].bookings[j]].passenger_id = cb[c].passengerIds[j]
                 /\ \A j \in DOMAIN payment' :
                      payment'[j].pnr \notin Range(cb[c].bookings)
       \* a call that has thrown writes nothing more
       /\ cb[c].pc = "thrown" => tables' = tables]_vars

\* C10 witness: the second booking insert of a call failed: both passengers and
\* the first booking with its seat decrement are there, and no payment.
C10_Witness ==
  /\ cb["b1"].pc = "thrown"
  /\ cb["b1"].error = "bookingError"
  /\ passenger = 2
  /\ Len(booking) = 1
  /\ train[1].available_seats = train[1].total_seats - 1
  /\ payment = <<>>

\* The Cancellation records of a PNR.
RecordsOf(cs, pnr) == {i \in DOMAIN cs : cs[i].pnr = pnr}

\* C11: in cancelBooking, when the status update succeeds and the Cancellation
\* insert fails, the booking stays Cancelled with its seat returned, the call
\* has created no Cancellation record for it, total_revenue is unchanged and
\* the error is thrown to the caller; when the status update itself fails, no
\* Cancellation record is created and total_revenue is unchanged.
C11_CancelFailureSurfaced ==
  [][\A k \in CancelCallers :
       LET pnr == cn[k].pnr IN
       \* step 1 succeeded: the booking is Cancelled, a Confirmed one gave its
       \* seat back, and neither cancellation nor admin was touched
       /\ (cn[k].pc = "update" /\ cn'[k].pc = "insert") =>
            /\ booking'[pnr].booking_status = "Cancelled"
            /\ train'[booking[pnr].train_id].available_seats =
                 train[booking[pnr].train_id].available_seats
                 + (IF booking[pnr].booking_status = "Confirmed" THEN 1 ELSE 0)
            /\ cancellation' = cancellation /\ admin' = admin
       \* step 1 failed: bookingError is thrown and nothing is written
       /\ (cn[k].pc = "update" /\ cn'[k].pc # "insert" /\ cn'[k] # cn[k]) =>
            /\ cn'[k].pc = "thrown" /\ cn'[k].error = "bookingError"
            /\ tables' = tables
       \* step 2 failed: cancellationError is thrown, the booking is still
       \* Cancelled, and no record, seat or revenue changes
       /\ (cn[k].pc = "insert" /\ cn'[k] # cn[k] /\ ~ CancellationInserted) =>
            /\ cn'[k].pc = "thrown" /\ cn'[k].error = "cancellationError"
            /\ booking[pnr].booking_status = "Cancelled" /\ booking' = booking
            /\ train' = train
            /\ RecordsOf(cancellation', pnr) = RecordsOf(cancellation, pnr)
            /\ cancellation' = cancellation /\ admin' = admin]_vars

\* C11 witness: the insert of the only cancelBooking call failed: the booking is
\* Cancelled, its seat is back, there is no record and the revenue is the payment.
C11_Witness ==
  /\ cn["k1"].pc = "thrown" /\ cn["k1"].error = "cancellationError"
  /\ cn["k2"].pc = "idle"
  /\ booking[1].booking_status = "Cancelled"
  /\ train[1].available_seats = train[1].total_seats
  /\ RecordsOf(cancellation, 1) = {}
  /\ admin = <<[total_revenue |-> payment[1].amount]>>

\* C12: under createBooking and cancelBooking calls every booking is created
\* Confirmed and changes status at most once, from Confirmed to Cancelled; a
\* Cancelled booking never becomes Confirmed again.
C12_BookingLifecycle ==
  [][/\ Len(booking') >= Len(booking)
     /\ \A pnr \in DOMAIN booking' :
          IF pnr \in DOMAIN booking
            THEN \/ booking'[pnr].booking_status = booking[pnr].booking_status
                 \/ /\ booking[pnr].booking_status = "Confirmed"
                    /\ booking'[pnr].booking_status = "Cancelled"
            ELSE booking'[pnr].booking_status = "Confirmed"]_vars

\* C12 witness: a booking was cancelled, then cancelBooking ran on it again, and
\* it is Cancelled still, next to a booking that is Confirmed.
C12_Witness ==
  /\ Len(booking) = 2
  /\ booking[1].booking_status = "Cancelled"
  /\ booking[2].booking_status = "Confirmed"
  /\ Cardinality(RecordsOf(cancellation, 1)) = 2
  /\ cn["k1"].pc = "returned"

\* amount = round(price * tenths / 10): the whole number nearest to the product
IsRounded(amount, price, tenths) ==
  /\ 20 * amount - 10 <= 2 * price * tenths
  /\ 2 * price * tenths < 20 * amount + 10

\* C13: an addTrain call that returns has created one train whose total_seats
\* and available_seats both equal the given seat count, and exactly four fares
\* for it, one per class AC First Class, AC 2 Tier, AC 3 Tier, Sleeper, of
\* round(price * 1.0), round(price * 0.8), round(price * 0.6), round(price * 0.4).
C13_AddTrainRows ==
  [][/\ (at.pc = "train" /\ at'.pc = "fare") =>
          /\ Len(train') = Len(train) + 1
          /\ \A t \in DOMAIN train : train'[t] = train[t]
          /\ at'.newTrain = Len(train')
          /\ Last(train').total_seats = at.availableSeats
          /\ Last(train').available_seats = at.availableSeats
          /\ \A f \in DOMAIN fare : fare[f].train_id # at'.newTrain
          /\ fare' = fare
     /\ (at.pc = "fare" /\ at'.pc = "returned") =>
          LET mine == {f \in DOMAIN fare' : fare'[f].train_id = at.newTrain}
              of(cls) == {f \in mine : fare'[f].class = cls}
              amountOf(cls) == fare'[CHOOSE f \in of(cls) : TRUE].fare_amount
          IN /\ train' = train
             /\ Len(fare') = Len(fare) + 4
             /\ \A f \in DOMAIN fare : fare'[f] = fare[f]
             /\ Cardinality(mine) = 4
             /\ \A cls \in {"AC First Class", "AC 2 Tier", "AC 3 Tier", "Sleeper"} :
                  Cardinality(of(cls)) = 1
             /\ IsRounded(amountOf("AC First Class"), at.price, 10)
             /\ IsRounded(amountOf("AC 2 Tier"), at.price, 8)
             /\ IsRounded(amountOf("AC 3 Tier"), at.price, 6)
             /\ IsRounded(amountOf("Sleeper"), at.price, 4)]_vars

\* C13 witness: addTrain returned for price 1: fares 1, 1 (0.8 up), 1 (0.6 up)
\* and 0 (0.4 down) on a train whose seats are all available.
C13_Witness ==
  /\ at.pc = "returned"
  /\ Len(train) = 1 /\ train[1].available_seats = train[1].total_seats
  /\ Len(fare) = 4
  /\ fare[1].fare_amount = 1 /\ fare[2].fare_amount = 1
  /\ fare[3].fare_amount = 1 /\ fare[4].fare_amount = 0
  /\ fare[4].class = "Sleeper"

\* A step in which booking pnr was updated from status `from` to status `to`.
StatusEdge(pnr, from, to) ==
  /\ pnr \in DOMAIN booking /\ Len(booking') = Len(booking)
  /\ booking[pnr].booking_status = from
  /\ booking'[pnr].booking_status = to
SeatsDelta(pnr) ==
  train'[booking[pnr].train_id].available_seats
    - train[booking[pnr].train_id].available_seats

\* C14: every update that moves a booking from Confirmed to any other status
\* releases exactly one seat, and every update that moves it from any other
\* status to Confirmed takes exactly one seat, once per status change.
C14_EdgeTriggered ==
  [][\A pnr \in DOMAIN booking, s \in BookingStatuses \ {"Confirmed"} :
       /\ StatusEdge(pnr, "Confirmed", s) => SeatsDelta(pnr) = 1
       /\ StatusEdge(pnr, s, "Confirmed") => SeatsDelta(pnr) = -1]_vars

\* C15: an update of a booking row that leaves booking_status unchanged
\* (the status rewritten as it is, or an unrelated field changed) leaves the
\* available_seats of every train unchanged.
C15_SameStatusNoSeatEffect ==
  [][(/\ Len(booking') = Len(booking)
      /\ \A pnr \in DOMAIN booking :
           booking'[pnr].booking_status = booking[pnr].booking_status)
     => train' = train]_vars

\* C15 witness: the fare of the Confirmed booking and of a Cancelled booking
\* were rewritten, and the train has the seats it had: one taken.
C15_Witness ==
  /\ Len(booking) = 2
  /\ booking[1].booking_status = "Confirmed" /\ booking[1].fare_id = 1
  /\ booking[2].booking_status = "Cancelled" /\ booking[2].fare_id = 1
  /\ train[1].available_seats = train[1].total_seats - 1

\* C16: updating a booking from Confirmed to Cancelled increases the
\* available_seats of its train by exactly 1 when available_seats < total_seats
\* and leaves it at total_seats otherwise.
C16_CancelReleasesClamped ==
  [][\A pnr \in DOMAIN booking :
       StatusEdge(pnr, "Confirmed", "Cancelled") =>
         LET t == booking[pnr].train_id
         IN train'[t].available_seats =
              IF train[t].available_seats < train[t].total_seats
                THEN train[t].available_seats + 1
                ELSE train[t].total_seats]_vars

\* C17: within one createBooking call all passenger inserts complete before the
\* fare lookup, the fare lookup completes before the first booking insert, and
\* all booking inserts complete before the payment insert: no Payment row is
\* written for a call before all N of its Booking rows exist.
C17_StepsOrdered ==
  [][\A c \in {"b1"} :
       LET n == cb[c].passengers IN
       \* a passenger insert: no fare looked up, no booking yet
       /\ passenger' # passenger =>
            /\ cb[c].pc = "passenger"
            /\ cb[c].fareId = 0 /\ cb[c].bookings = <<>>
            /\ booking' = booking /\ payment' = payment
       \* the fare lookup: all N passengers are there, no booking yet
       /\ cb[c].pc \in {"fare", "anyFare"} =>
            /\ Len(cb[c].passengerIds) = n
            /\ Range(cb[c].passengerIds) \subseteq 1..passenger
            /\ cb[c].fareId = 0 /\ cb[c].bookings = <<>>
            /\ tables' = tables
       \* a booking insert: all N passengers are there, the fare is resolved
       /\ BookingInserted =>
            /\ cb[c].pc = "booking"
            /\ Len(cb[c].passengerIds) = n
            /\ cb[c].fareId \in DOMAIN fare
            /\ Len(cb[c].bookings) < n
            /\ passenger' = passenger /\ payment' = payment
       \* the payment insert: all N bookings of the call are there
       /\ PaymentInserted =>
            /\ cb[c].pc = "payment"
            /\ Len(cb[c].bookings) = n
            /\ Range(cb[c].bookings) \subseteq DOMAIN booking
            /\ \A j \in DOMAIN cb[c].bookings :
                 booking[cb[c].bookings[j]].passenger_id = cb[c].passengerIds[j]
            /\ passenger' = passenger /\ booking' = booking]_vars

\* C17 witness: a call for two passengers stands before its payment insert:
\* both passengers and both bookings exist, on the resolved fare, and no payment.
C17_Witness ==
  /\ cb["b1"].pc = "payment"
  /\ cb["b1"].passengers = 2
  /\ Len(cb["b1"].passengerIds) = 2
  /\ cb["b1"].fareId \in DOMAIN fare
  /\ Len(cb["b1"].bookings) = 2 /\ Len(booking) = 2
  /\ payment = <<>>

\* C18: for any interleaving of the steps of two concurrent createBooking calls
\* on one train, each Confirmed booking created decrements available_seats
\* exactly once and none is lost: while the train had at least as many seats
\* as bookings were created, available_seats is the initial value (all of
\* total_seats) minus the number of bookings created by both calls.
C18_NoLostDecrement ==
  \A t \in DOMAIN train :
    LET created == {pnr \in DOMAIN booking :
                      /\ booking[pnr].train_id = t
                      /\ booking[pnr].booking_status = "Confirmed"}
    IN Cardinality(created) <= train[t].total_seats =>
         train[t].available_seats = train[t].total_seats - Cardinality(created)

\* C18 witness: the two calls are both in flight, each with its booking
\* inserted, and the train of two seats has none left.
C18_Witness ==
  /\ cb["b1"].pc = "payment" /\ Len(cb["b1"].bookings) = 1
  /\ cb["b2"].pc = "payment" /\ Len(cb["b2"].bookings) = 1
  /\ Len(booking) = 2
  /\ train[1].total_seats = 2 /\ train[1].available_seats = 0

\* C19: the inventory effect and the revenue effect of a cancellation commute:
\* from any state, the booking-status edge (seat increment) and the Cancellation
\* insert (revenue reversal) applied in either order give the same
\* available_seats and the same total_revenue, and neither effect reads or
\* writes the value of the other ledger.
C19_EffectsCommute ==
  \A pnr \in DOMAIN booking, amount \in Amounts :
    LET db == Database
        seat == CancelSeatEffect(db, pnr)
        rev == CancelRevenueEffect(db, pnr, amount)
        otherAdmin == [db EXCEPT !.admin = <<[total_revenue |-> 0]>>]
        otherTrain == [db EXCEPT !.train = AddSeats(db.train, 1, 1)]
    IN \* either order
       /\ CancelRevenueEffect(seat, pnr, amount) = CancelSeatEffect(rev, pnr)
       \* neither writes the other ledger
       /\ seat.admin = db.admin /\ seat.cancellation = db.cancellation
       /\ rev.train = db.train /\ rev.booking = db.booking
       \* neither reads the other ledger
       /\ CancelSeatEffect(otherAdmin, pnr).train = seat.train
       /\ CancelRevenueEffect(otherTrain, pnr, amount).admin = rev.admin

\* C19 witness: both effects were applied to the paid booking: its seat is
\* back and the revenue is the payment less the refund.
C19_Witness ==
  /\ booking[1].booking_status = "Cancelled"
  /\ train[1].available_seats = train[1].total_seats
  /\ Len(cancellation) = 1 /\ cancellation[1].status = "Processed"
  /\ cancellation[1].refund_amount > 0
  /\ admin = <<[total_revenue |-> payment[1].amount - cancellation[1].refund_amount]>>

\* The fare rows of a train, and those of one class.
FaresOf(t) == {f \in DOMAIN fare : fare[f].train_id = t}
FaresOfClass(t, cls) == {f \in FaresOf(t) : fare[f].class = cls}

\* C20: in createBooking, when no fare exists for exactly (train, requested
\* class) the call does not fail but uses some fare row of the same train for
\* all of its bookings; the call fails at fare resolution, having created no
\* Booking and no Payment row, only when the train has no fare row at all.
C20_FareFallback ==
  [][\A c \in {"b1"} :
       LET t == cb[c].trainId
           ids == Range(cb[c].passengerIds)
       IN
       \* the lookup of (train, class) never fails the call
       /\ (cb[c].pc = "fare" /\ cb'[c] # cb[c]) =>
            IF FaresOfClass(t, cb[c].fareClass) = {}
              THEN cb'[c].pc = "anyFare"
              ELSE cb'[c].pc \in {"booking", "anyFare"}
       \* the fallback fails exactly when the train has no fare row; otherwise
       \* it resolves to a fare row of the same train
       /\ (cb[c].pc = "anyFare" /\ cb'[c] # cb[c]) =>
            IF FaresOf(t) = {}
              THEN /\ cb'[c].pc = "thrown" /\ cb'[c].error = "anyFareError"
                   /\ tables' = tables
                   /\ \A i \in DOMAIN booking' : booking'[i].passenger_id \notin ids
              ELSE /\ cb'[c].pc = "booking"
                   /\ cb'[c].fareId \in FaresOf(t)
       \* every booking of the call is on the resolved fare
       /\ cb[c].pc = "booking" =>
            /\ cb[c].fareId \in FaresOf(t)
            /\ cb'[c].pc = "booking" => cb'[c].fareId = cb[c].fareId
            /\ BookingInserted => Last(booking').fare_id = cb[c].fareId]_vars

\* C20 witness: a call for two passengers in a class the train has no fare for
\* has returned: both bookings are on one fare row of the train.
C20_Witness ==
  /\ cb["b1"].pc = "returned"
  /\ Len(booking) = 2
  /\ booking[1].class = "Tatkal" /\ booking[2].class = "Tatkal"
  /\ FaresOfClass(1, "Tatkal") = {}
  /\ booking[1].fare_id \in FaresOf(1)
  /\ booking[2].fare_id = booking[1].fare_id
  /\ Len(payment) = 1

\* The Confirmed bookings of a train.
ConfirmedOn(t) ==
  {pnr \in DOMAIN booking : /\ booking[pnr].train_id = t
                            /\ booking[pnr].booking_status = "Confirmed"}

\* C21: seat conservation: in every state reached through addTrain,
\* createBooking and cancelBooking, each train's available_seats equals its
\* total_seats minus the number of its bookings whose status is Confirmed.
C21_SeatConservation ==
  \A t \in DOMAIN train :
    train[t].available_seats = train[t].total_seats - Cardinality(ConfirmedOn(t))

\* C21 witness: of two bookings made on a train the first was cancelled by a
\* call that returned; one seat is taken.
C21_Witness ==
  /\ Len(booking) = 2
  /\ booking[1].booking_status = "Cancelled"
  /\ booking[2].booking_status = "Confirmed"
  /\ cn["k1"].pc = "returned"
  /\ train[1].available_seats = train[1].total_seats - 1

\* The sum of field amounts over the rows of a table that satisfy a status.
RECURSIVE SumSuccessful(_)
SumSuccessful(ps) ==
  IF ps = <<>> THEN 0
  ELSE (IF Head(ps).status = "Successful" THEN Head(ps).amount ELSE 0)
       + SumSuccessful(Tail(ps))
RECURSIVE SumProcessed(_)
SumProcessed(cs) ==
  IF cs = <<>> THEN 0
  ELSE (IF Head(cs).status = "Processed" THEN Head(cs).refund_amount ELSE 0)
       + SumProcessed(Tail(cs))

\* C22: revenue reconciliation: in every state reached through payment inserts
\* and updates and cancellation inserts, in any order, total_revenue equals the
\* sum of the amounts of the payments now Successful minus the sum of the
\* refund_amount of the Cancellation records that are Processed.
C22_RevenueReconciled ==
  \A j \in DOMAIN admin :
    admin[j].total_revenue = SumSuccessful(payment) - SumProcessed(cancellation)

\* C23: at most one admin revenue record exists in every reachable state, also
\* when two Successful payments are inserted concurrently while no revenue
\* record exists (both triggers testing for the record before either inserts
\* it), and every Successful payment is counted once in the one total_revenue.
C23_SingleRevenueRecord ==
  /\ Len(admin) <= 1
  /\ (TxInFlight = 0 /\ SumSuccessful(payment) > 0) =>
       admin = <<[total_revenue |-> SumSuccessful(payment)]>>

\* C24: cancelBooking is idempotent on both ledgers: a call on a booking that
\* is already Cancelled (here: one an earlier call has cancelled and written
\* the Cancellation record of) changes neither the available_seats of its
\* train nor total_revenue, so a PNR's refund is reversed at most once.
C24_CancelIdempotent ==
  [][\A k \in {"k1"} :
       LET pnr == cn[k].pnr IN
       /\ (/\ cn[k].pc = "update" /\ cn'[k] # cn[k]
           /\ booking[pnr].booking_status = "Cancelled") =>
            (train' = train /\ admin' = admin)
       /\ (/\ cn[k].pc = "insert" /\ cn'[k] # cn[k]
           /\ RecordsOf(cancellation, pnr) # {}) =>
            (train' = train /\ admin' = admin)]_vars

\* C25: every Booking row created by createBooking references a fare that
\* belongs to the booking's train and whose class equals the booking's own
\* class field.
C25_BookingFareMatches ==
  \A pnr \in DOMAIN booking :
    /\ booking[pnr].fare_id \in FaresOf(booking[pnr].train_id)
    /\ fare[booking[pnr].fare_id].class = booking[pnr].class

====
